---- MODULE Spec2Model ----
(***************************************************************************)
(* CityCarDataHandler (src/funnel_utility.py): five tables read from CSV   *)
(* files, the cached funnel table built by four left joins, and the        *)
(* funnel, timing, segment and demand analyses over them.                  *)
(*                                                                         *)
(* A cell value is a record [tag, s, n]:                                   *)
(*   null  a missing value (NaN / NaT)                                     *)
(*   str   a string cell (ids, platform, charge_status, ...)               *)
(*   text  a timestamp as read_csv leaves it: text that pd.to_datetime     *)
(*         parses to second n, or (s = "?") text it cannot parse           *)
(*   dt    a date-time value, n seconds after the epoch of the data        *)
(* A table is [isNone, cols, dtcols, rows]: its column names, the columns  *)
(* whose dtype is datetime64, and its rows (functions from cols to cells). *)
(***************************************************************************)
EXTENDS Integers, Sequences, FiniteSets, TLC

VARIABLES disk, df_downloads, df_signups, df_requests, df_transactions,
          df_reviews, df_funnel, ret, builds, edits

vars == <<disk, df_downloads, df_signups, df_requests, df_transactions,
          df_reviews, df_funnel, ret, builds, edits>>

tables == <<df_downloads, df_signups, df_requests, df_transactions, df_reviews>>

-----------------------------------------------------------------------------
(* Cells *)

Null == [tag |-> "null", s |-> "", n |-> 0]

Str(x) == [tag |-> "str", s |-> x, n |-> 0]

Text(t) == [tag |-> "text", s |-> "", n |-> t]

Garbage == [tag |-> "text", s |-> "?", n |-> 0]

Dt(t) == [tag |-> "dt", s |-> "", n |-> t]

notna(v) == v.tag # "null"

isna(v) == v.tag = "null"

-----------------------------------------------------------------------------
(* Tables *)

None == [isNone |-> TRUE, cols |-> {}, dtcols |-> {}, rows |-> <<>>]

DataFrame(cols, rows) ==
    [isNone |-> FALSE, cols |-> cols, dtcols |-> {}, rows |-> rows]

Range(f) == {f[i] : i \in DOMAIN f}

(* F applied to the value of e, e evaluated once: the way a method body    *)
(* holds an intermediate result in a local variable.                       *)
Once(e, F(_)) == CHOOSE y \in {F(x) : x \in {e}} : TRUE

RECURSIVE Flatten(_)
Flatten(ss) == IF ss = <<>> THEN <<>> ELSE Head(ss) \o Flatten(Tail(ss))

(* pd.to_datetime on one cell: text is parsed, date-times and nulls stay. *)
Parseable(v) == v.tag \in {"null", "dt"} \/ (v.tag = "text" /\ v.s = "")

to_datetime(v) == IF v.tag = "text" THEN Dt(v.n) ELSE v

(* df[col] = pd.to_datetime(df[col]): KeyError when the column is missing, *)
(* a parse error when a cell cannot be parsed, else the column replaced.   *)
ConvertColumn(T, col) ==
    IF col \notin T.cols
    THEN [status |-> "KeyError", err |-> col, df |-> T]
    ELSE IF \E i \in DOMAIN T.rows : ~Parseable(T.rows[i][col])
    THEN [status |-> "ValueError", err |-> col, df |-> T]
    ELSE [status |-> "ok", err |-> "",
          df |-> [T EXCEPT !.dtcols = @ \cup {col},
                           !.rows = [i \in DOMAIN T.rows |->
                               [T.rows[i] EXCEPT ![col] = to_datetime(@)]]]]

(* The columns load_data converts, in the order of lines 31-37. *)
TimeColumns == <<"pickup_ts", "dropoff_ts", "request_ts", "accept_ts", "cancel_ts">>

RECURSIVE ConvertFrom(_, _)
ConvertFrom(T, i) ==
    IF i > Len(TimeColumns) THEN [status |-> "ok", err |-> "", df |-> T]
    ELSE LET c == ConvertColumn(T, TimeColumns[i])
         IN  IF c.status # "ok" THEN c ELSE ConvertFrom(c.df, i + 1)

-----------------------------------------------------------------------------
(* pd.merge(L, R, how='left', left_on=lkey, right_on=rkey) *)

Overlap(L, R, lkey, rkey) ==
    (L.cols \cap R.cols) \ (IF lkey = rkey THEN {lkey} ELSE {})

LeftName(c, ov) == IF c \in ov THEN c \o "_x" ELSE c

RightName(c, ov) == IF c \in ov THEN c \o "_y" ELSE c

RightCols(R, lkey, rkey) == R.cols \ (IF lkey = rkey THEN {rkey} ELSE {})

MergedCols(L, R, lkey, rkey) ==
    LET ov == Overlap(L, R, lkey, rkey)
    IN  {LeftName(c, ov) : c \in L.cols}
          \cup {RightName(c, ov) : c \in RightCols(R, lkey, rkey)}

(* One output row: the left row's cells, then the right row's (all null    *)
(* when r is the empty function, i.e. no right row matched).               *)
MergedRow(l, r, L, R, lkey, rkey) ==
    LET ov == Overlap(L, R, lkey, rkey)
        lc == {LeftName(c, ov) : c \in L.cols}
    IN  [c \in MergedCols(L, R, lkey, rkey) |->
            IF c \in lc
            THEN l[CHOOSE d \in L.cols : LeftName(d, ov) = c]
            ELSE LET d == CHOOSE e \in RightCols(R, lkey, rkey) : RightName(e, ov) = c
                 IN  IF r = <<>> THEN Null ELSE r[d]]

(* The right rows whose key equals the left row's key. pandas matches a    *)
(* null key with a null key.                                               *)
Matches(l, R, lkey, rkey) == SelectSeq(R.rows, LAMBDA r : r[rkey] = l[lkey])

MergedRowsFor(l, L, R, lkey, rkey) ==
    LET m == Matches(l, R, lkey, rkey)
    IN  IF m = <<>>
        THEN << MergedRow(l, <<>>, L, R, lkey, rkey) >>
        ELSE [i \in DOMAIN m |-> MergedRow(l, m[i], L, R, lkey, rkey)]

PdMerge(L, R, lkey, rkey) ==
    IF L.isNone \/ R.isNone
    THEN [status |-> "TypeError", err |-> "NoneType", df |-> None]
    ELSE IF rkey \notin R.cols
    THEN [status |-> "KeyError", err |-> rkey, df |-> None]
    ELSE IF lkey \notin L.cols
    THEN [status |-> "KeyError", err |-> lkey, df |-> None]
    ELSE LET ov == Overlap(L, R, lkey, rkey)
         IN  [status |-> "ok", err |-> "",
              df |-> [isNone |-> FALSE,
                      cols   |-> MergedCols(L, R, lkey, rkey),
                      dtcols |-> {LeftName(c, ov) : c \in L.dtcols}
                                   \cup {RightName(c, ov) :
                                           c \in R.dtcols \cap RightCols(R, lkey, rkey)},
                      rows   |-> Flatten([i \in DOMAIN L.rows |->
                                    MergedRowsFor(L.rows[i], L, R, lkey, rkey)])]]

(* df.rename(columns={old: new}, inplace=True), guarded by "old in columns" *)
RenameIfPresent(T, old, new) ==
    IF old \notin T.cols THEN T
    ELSE LET nc == (T.cols \ {old}) \cup {new}
         IN  [isNone |-> FALSE,
              cols   |-> nc,
              dtcols |-> IF old \in T.dtcols THEN (T.dtcols \ {old}) \cup {new}
                         ELSE T.dtcols,
              rows   |-> [i \in DOMAIN T.rows |->
                            [c \in nc |-> IF c = new THEN T.rows[i][old]
                                          ELSE T.rows[i][c]]]]

-----------------------------------------------------------------------------
(* The handler's fields as one record, threaded through the method bodies. *)

Handler == [dl |-> df_downloads, su |-> df_signups, rq |-> df_requests,
            tx |-> df_transactions, rv |-> df_reviews, fn |-> df_funnel,
            builds |-> builds]

(* pd.read_csv of one file of the data folder: the table as the file holds *)
(* it, every column untyped; raises when the file is not there.            *)
ReadCsv(file) ==
    IF file.isNone THEN [status |-> "FileNotFoundError", df |-> None]
    ELSE [status |-> "ok", df |-> DataFrame(file.cols, file.rows)]

(* load_data: the five reads, then the five conversions; the first         *)
(* exception ends it (caught and printed), keeping what was assigned.      *)
LoadData(st, d) ==
    LET r1 == ReadCsv(d.downloads)
        r2 == ReadCsv(d.signups)
        r3 == ReadCsv(d.requests)
        r4 == ReadCsv(d.transactions)
        r5 == ReadCsv(d.reviews)
        s1 == [st EXCEPT !.dl = r1.df, !.builds = 0]
        s2 == [s1 EXCEPT !.su = r2.df]
        s3 == [s2 EXCEPT !.rq = r3.df]
        s4 == [s3 EXCEPT !.tx = r4.df]
        s5 == [s4 EXCEPT !.rv = r5.df]
    IN  IF r1.status # "ok" THEN [st |-> st, failed |-> TRUE]
        ELSE IF r2.status # "ok" THEN [st |-> s1, failed |-> TRUE]
        ELSE IF r3.status # "ok" THEN [st |-> s2, failed |-> TRUE]
        ELSE IF r4.status # "ok" THEN [st |-> s3, failed |-> TRUE]
        ELSE IF r5.status # "ok" THEN [st |-> s4, failed |-> TRUE]
        ELSE Once(ConvertFrom(r3.df, 1), LAMBDA cv :
                [st |-> [s5 EXCEPT !.rq = cv.df], failed |-> cv.status # "ok"])

(* "if self.df_downloads is None: self.load_data()" (lines 67-68) *)
LoadIfNoDownloads(st, d) == IF st.dl.isNone THEN LoadData(st, d).st ELSE st

(* A handler that reloads on every call, loaded or not *)
AlwaysReload(st, d) == LoadData(st, d).st

(* "if self.df_requests is None: self.load_data()" (lines 126-127 etc.) *)
LoadIfNoRequests(st, d) == IF st.rq.isNone THEN LoadData(st, d).st ELSE st

(* A clean-up that keeps the right-hand variant instead of the left one *)
CleanNamesRight(T) ==
    Once(RenameIfPresent(T, "driver_id_y", "driver_id"), LAMBDA U :
        RenameIfPresent(U, "user_id_y", "user_id"))

(* Lines 108-116: the _x survivors of driver_id and user_id get their name *)
(* back; nothing is dropped.                                               *)
CleanNames(T) ==
    Once(RenameIfPresent(T, "driver_id_x", "driver_id"), LAMBDA U :
        RenameIfPresent(U, "user_id_x", "user_id"))

Raised(st, r) == [st |-> st, status |-> r.status, err |-> r.err]

(* merge_all_data: df_funnel is assigned after each of the four joins.     *)
MergeAllData(st, d) ==
    Once(LoadIfNoDownloads(st, d), LAMBDA s0 :
    Once(PdMerge(s0.dl, s0.su, "app_download_key", "session_id"), LAMBDA j1 :
      IF j1.status # "ok" THEN Raised(s0, j1) ELSE
    Once(PdMerge(j1.df, s0.rq, "user_id", "user_id"), LAMBDA j2 :
      IF j2.status # "ok" THEN Raised([s0 EXCEPT !.fn = j1.df], j2) ELSE
    Once(PdMerge(j2.df, s0.tx, "ride_id", "ride_id"), LAMBDA j3 :
      IF j3.status # "ok" THEN Raised([s0 EXCEPT !.fn = j2.df], j3) ELSE
    Once(PdMerge(j3.df, s0.rv, "ride_id", "ride_id"), LAMBDA j4 :
      IF j4.status # "ok" THEN Raised([s0 EXCEPT !.fn = j3.df], j4) ELSE
      [st |-> [s0 EXCEPT !.fn = CleanNames(j4.df), !.builds = @ + 1],
       status |-> "ok", err |-> ""])))))

(* A consumer step that merges whether or not the cache is there *)
EnsureFunnelAlways(st, d) == MergeAllData(st, d)

(* "if self.df_funnel is None: self.merge_all_data()" (lines 189-190,      *)
(* 323-324, 349-350)                                                       *)
EnsureFunnel(st, d) ==
    IF st.fn.isNone THEN MergeAllData(st, d)
    ELSE [st |-> st, status |-> "ok", err |-> ""]

-----------------------------------------------------------------------------
(* Column helpers *)

(* The first column of the sequence that the table does not have, or "".   *)
RECURSIVE FirstMissing(_, _)
FirstMissing(T, cs) ==
    IF cs = <<>> THEN ""
    ELSE IF Head(cs) \notin T.cols THEN Head(cs)
    ELSE FirstMissing(T, Tail(cs))

(* Series.nunique(): the distinct non-null values *)
Distinct(rows, col) == {rows[i][col] : i \in DOMAIN rows} \ {Null}

(* Series.count() in the place of nunique(): the non-null cells *)
CountNotNull(rows, col) == Len(SelectSeq(rows, LAMBDA r : notna(r[col])))

nunique(rows, col) == Cardinality(Distinct(rows, col))

-----------------------------------------------------------------------------
(* Results. ret is what the last call gave back: the method, how it ended  *)
(* ("ok" or the exception's type), the exception's argument, the value.    *)

Result(op, status, err, val) ==
    [op |-> op, status |-> status, err |-> err, val |-> val]

NoValue == [none |-> TRUE]

Outcome(st, r) == [st |-> st, ret |-> r]

(* A float that is a ratio of two counts times 100: finite, NaN (0/0) or   *)
(* inf (n/0), as pandas divides two integer columns.                       *)
Percent == 100

SeriesRatio(a, b) ==
    [kind |-> IF b # 0 THEN "finite" ELSE IF a = 0 THEN "nan" ELSE "inf",
     num |-> a * Percent, den |-> b]

(* (b - a).dt.total_seconds(): NaN when either side is null *)
SecondsBetween(a, b) ==
    IF notna(a) /\ notna(b) THEN [na |-> FALSE, secs |-> b.n - a.n]
    ELSE [na |-> TRUE, secs |-> 0]

SecondsPerMinute == 60

(* total_seconds() / 60 > m  and  < m, on whole seconds *)
MinutesGreater(x, m) == ~x.na /\ x.secs > m * SecondsPerMinute

MinutesLess(x, m) == ~x.na /\ x.secs < m * SecondsPerMinute

(* Subtracting two columns needs both to be datetime64: text (object)      *)
(* columns raise TypeError.                                                *)
BothDatetime(T, a, b) == a \in T.dtcols /\ b \in T.dtcols

SecondsPerHour == 3600

HoursPerDay == 24

(* Series.dt.hour *)
hour(v) == (v.n \div SecondsPerHour) % HoursPerDay

(* Series.value_counts() of the hours of a column's non-null cells *)
HourCounts(rows, col) ==
    LET hs == {hour(rows[i][col]) : i \in {j \in DOMAIN rows : notna(rows[j][col])}}
    IN  [h \in hs |-> Cardinality({i \in DOMAIN rows :
                          notna(rows[i][col]) /\ hour(rows[i][col]) = h})]

RECURSIVE SumSecs(_)
SumSecs(xs) ==
    IF xs = <<>> THEN 0
    ELSE (IF Head(xs).na THEN 0 ELSE Head(xs).secs) + SumSecs(Tail(xs))

Count(xs) == Len(SelectSeq(xs, LAMBDA x : ~x.na))

(* Series.mean() in minutes, kept as the sum in seconds over the count:    *)
(* NaN when there is nothing to average.                                   *)
Mean(xs) == [nan |-> Count(xs) = 0, sum |-> SumSecs(xs), count |-> Count(xs)]

-----------------------------------------------------------------------------
(* analyze_ride_duration_quality (lines 121-140) *)

LongRideMinutes == 300

Durations(rq) ==
    [i \in DOMAIN rq.rows |->
        SecondsBetween(rq.rows[i]["pickup_ts"], rq.rows[i]["dropoff_ts"])]

(* A threshold that takes in a ride of exactly 300 minutes *)
IsLongRideInclusive(x) == ~x.na /\ x.secs >= LongRideMinutes * SecondsPerMinute

IsLongRide(x) == MinutesGreater(x, LongRideMinutes)

IsNegativeRide(x) == MinutesLess(x, 0)

AnalyzeRideDurationQualityOn(s0) ==
    LET rq == s0.rq
        op == "analyze_ride_duration_quality"
        miss == FirstMissing(rq, <<"dropoff_ts", "pickup_ts">>)
        durations == Durations(rq)
    IN  IF rq.isNone THEN Outcome(s0, Result(op, "TypeError", "NoneType", NoValue))
        ELSE IF miss # "" THEN Outcome(s0, Result(op, "KeyError", miss, NoValue))
        ELSE IF ~BothDatetime(rq, "dropoff_ts", "pickup_ts")
        THEN Outcome(s0, Result(op, "TypeError", "dtype", NoValue))
        ELSE Outcome(s0, Result(op, "ok", "",
                [stats_count    |-> Count(durations),
                 stats_mean     |-> Mean(durations),
                 long_rides     |-> Len(SelectSeq(durations, IsLongRide)),
                 negative_rides |-> Len(SelectSeq(durations, IsNegativeRide))]))

AnalyzeRideDurationQuality(st, d) == Once(LoadIfNoRequests(st, d), AnalyzeRideDurationQualityOn)

-----------------------------------------------------------------------------
(* analyze_dropoff_gap (lines 226-260) *)

IsProblemRide(r) == notna(r["accept_ts"]) /\ isna(r["dropoff_ts"])

AnalyzeDropoffGapOn(s0) ==
    LET rq == s0.rq
        op == "analyze_dropoff_gap"
        miss == FirstMissing(rq, <<"accept_ts", "dropoff_ts", "cancel_ts">>)
        problem_rides == SelectSeq(rq.rows, IsProblemRide)
        count_problems == Len(problem_rides)
        cancelled_count == Len(SelectSeq(problem_rides, LAMBDA r : notna(r["cancel_ts"])))
    IN  IF rq.isNone THEN Outcome(s0, Result(op, "TypeError", "NoneType", NoValue))
        ELSE IF miss # "" THEN Outcome(s0, Result(op, "KeyError", miss, NoValue))
        ELSE Outcome(s0, Result(op, "ok", "",
                [count_problems  |-> count_problems,
                 cancelled_count |-> cancelled_count,
                 printed |-> IF count_problems > 0 THEN "quote" ELSE "Keine Faelle gefunden",
                 quote_num |-> IF count_problems > 0 THEN cancelled_count * Percent ELSE 0,
                 quote_den |-> count_problems]))

AnalyzeDropoffGap(st, d) == Once(LoadIfNoRequests(st, d), AnalyzeDropoffGapOn)

-----------------------------------------------------------------------------
(* analyze_cancellation_reasons (lines 262-316) *)

LongWaitMinutes == 10

IsCancelledAfterAccept(r) ==
    notna(r["accept_ts"]) /\ isna(r["dropoff_ts"]) /\ notna(r["cancel_ts"])

AnalyzeCancellationReasonsOn(s0) ==
    LET rq == s0.rq
        op == "analyze_cancellation_reasons"
        miss == FirstMissing(rq, <<"dropoff_ts", "pickup_ts", "accept_ts">>)
        completed_rides == SelectSeq(rq.rows, LAMBDA r : notna(r["dropoff_ts"]))
        wait_time == [i \in DOMAIN completed_rides |->
                        SecondsBetween(completed_rides[i]["accept_ts"],
                                       completed_rides[i]["pickup_ts"])]
        cancelled_rides == SelectSeq(rq.rows, IsCancelledAfterAccept)
        patience_time == [i \in DOMAIN cancelled_rides |->
                            SecondsBetween(cancelled_rides[i]["accept_ts"],
                                           cancelled_rides[i]["cancel_ts"])]
        long_waiters == SelectSeq(patience_time,
                                  LAMBDA x : MinutesGreater(x, LongWaitMinutes))
    IN  IF rq.isNone THEN Outcome(s0, Result(op, "TypeError", "NoneType", NoValue))
        ELSE IF miss # "" THEN Outcome(s0, Result(op, "KeyError", miss, NoValue))
        ELSE IF ~BothDatetime(rq, "pickup_ts", "accept_ts")
        THEN Outcome(s0, Result(op, "TypeError", "dtype", NoValue))
        ELSE IF "cancel_ts" \notin rq.cols
        THEN Outcome(s0, Result(op, "KeyError", "cancel_ts", NoValue))
        ELSE IF ~BothDatetime(rq, "cancel_ts", "accept_ts")
        THEN Outcome(s0, Result(op, "TypeError", "dtype", NoValue))
        ELSE IF Len(cancelled_rides) = 0
        THEN Outcome(s0, Result(op, "ZeroDivisionError", "division by zero", NoValue))
        ELSE Outcome(s0, Result(op, "ok", "",
                [avg_wait_completed |-> Mean(wait_time),
                 avg_wait_cancelled |-> Mean(patience_time),
                 long_waiters |-> Len(long_waiters),
                 share_num |-> Len(long_waiters) * Percent,
                 share_den |-> Len(cancelled_rides),
                 busy_hours |-> HourCounts(cancelled_rides, "cancel_ts")]))

AnalyzeCancellationReasons(st, d) == Once(LoadIfNoRequests(st, d), AnalyzeCancellationReasonsOn)

-----------------------------------------------------------------------------
(* analyze_surge_demand (lines 388-408) *)

AnalyzeSurgeDemandOn(s0) ==
    LET rq == s0.rq
        op == "analyze_surge_demand"
    IN  IF rq.isNone THEN Outcome(s0, Result(op, "TypeError", "NoneType", NoValue))
        ELSE Once(ConvertColumn(rq, "request_ts"), LAMBDA cv :
          IF cv.status # "ok" THEN Outcome(s0, Result(op, cv.status, cv.err, NoValue))
          ELSE Outcome([s0 EXCEPT !.rq = cv.df,
                                  !.builds = IF cv.df = rq THEN @ ELSE 0],
                       Result(op, "ok", "",
                              [hourly_demand |-> HourCounts(cv.df.rows, "request_ts")])))

AnalyzeSurgeDemand(st, d) == Once(LoadIfNoRequests(st, d), AnalyzeSurgeDemandOn)

-----------------------------------------------------------------------------
(* calculate_funnel_steps (lines 184-224) *)

StepNames ==
    <<"Downloads", "Signups", "Requests", "Accepted", "Completed", "Payment", "Reviews">>

(* "oder generell existiert": any charge status counts as paid *)
IsChargedAtAll(r) == notna(r["charge_status"])

IsApproved(r) == r["charge_status"] = Str("Approved")

FunnelCounts(fn) ==
    << nunique(fn.rows, "app_download_key"),
       nunique(fn.rows, "user_id"),
       nunique(SelectSeq(fn.rows, LAMBDA r : notna(r["request_ts"])), "user_id"),
       nunique(SelectSeq(fn.rows, LAMBDA r : notna(r["accept_ts"])), "user_id"),
       nunique(SelectSeq(fn.rows, LAMBDA r : notna(r["dropoff_ts"])), "user_id"),
       nunique(SelectSeq(fn.rows, IsApproved), "user_id"),
       nunique(SelectSeq(fn.rows, LAMBDA r : notna(r["review_id"])), "user_id") >>

CalculateFunnelStepsOn(e) ==
    LET fn == e.st.fn
        op == "calculate_funnel_steps"
        miss == FirstMissing(fn, <<"app_download_key", "user_id", "request_ts",
                                   "accept_ts", "dropoff_ts", "charge_status",
                                   "review_id">>)
    IN  IF e.status # "ok" THEN Outcome(e.st, Result(op, e.status, e.err, NoValue))
        ELSE IF miss # "" THEN Outcome(e.st, Result(op, "KeyError", miss, NoValue))
        ELSE Outcome(e.st, Result(op, "ok", "",
                [steps |-> StepNames, counts |-> FunnelCounts(fn)]))

CalculateFunnelSteps(st, d) == Once(EnsureFunnel(st, d), CalculateFunnelStepsOn)

-----------------------------------------------------------------------------
(* get_platform_metrics (lines 318-342). The rows of the returned table    *)
(* are kept as a set: groupby orders them by platform name.                *)

PlatformRow(fn, g) ==
    LET rows == SelectSeq(fn.rows, LAMBDA r : r["platform"] = g)
        downloads == nunique(rows, "app_download_key")
        completed == Len(SelectSeq(rows, LAMBDA r : notna(r["dropoff_ts"])))
    IN  [Platform |-> g.s, Downloads |-> downloads, Completed_Rides |-> completed,
         Conversion_Rate |-> SeriesRatio(completed, downloads)]

GetPlatformMetricsOn(e) ==
    LET fn == e.st.fn
        op == "get_platform_metrics"
        miss == FirstMissing(fn, <<"platform", "app_download_key", "dropoff_ts">>)
    IN  IF e.status # "ok" THEN Outcome(e.st, Result(op, e.status, e.err, NoValue))
        ELSE IF miss # "" THEN Outcome(e.st, Result(op, "KeyError", miss, NoValue))
        ELSE Outcome(e.st, Result(op, "ok", "",
                [platform_stats |-> {PlatformRow(fn, g) : g \in Distinct(fn.rows, "platform")}]))

GetPlatformMetrics(st, d) == Once(EnsureFunnel(st, d), GetPlatformMetricsOn)

-----------------------------------------------------------------------------
(* get_funnel_by_age (lines 344-386). The rows are kept as a set: the      *)
(* method sorts them by Age_Group. With no age group at all the empty      *)
(* result has no Age_Group column and sort_values raises KeyError.         *)

AgeRow(df_age, group) ==
    LET group_data == SelectSeq(df_age, LAMBDA r : r["age_range"] = group)
    IN  [Age_Group |-> group.s,
         Signups   |-> nunique(group_data, "user_id"),
         Requests  |-> nunique(SelectSeq(group_data, LAMBDA r : notna(r["request_ts"])), "user_id"),
         Completed |-> nunique(SelectSeq(group_data, LAMBDA r : notna(r["dropoff_ts"])), "user_id"),
         Reviews   |-> nunique(SelectSeq(group_data, LAMBDA r : notna(r["review_id"])), "user_id")]

GetFunnelByAgeOn(e) ==
    LET fn == e.st.fn
        op == "get_funnel_by_age"
        df_age == SelectSeq(fn.rows, LAMBDA r : notna(r["age_range"]))
        all_groups == Distinct(df_age, "age_range")
        miss == FirstMissing(fn, <<"user_id", "request_ts", "dropoff_ts", "review_id">>)
    IN  IF e.status # "ok" THEN Outcome(e.st, Result(op, e.status, e.err, NoValue))
        ELSE IF "age_range" \notin fn.cols
        THEN Outcome(e.st, Result(op, "KeyError", "age_range", NoValue))
        ELSE IF all_groups = {}
        THEN Outcome(e.st, Result(op, "KeyError", "Age_Group", NoValue))
        ELSE IF miss # "" THEN Outcome(e.st, Result(op, "KeyError", miss, NoValue))
        ELSE Outcome(e.st, Result(op, "ok", "",
                [df_results |-> {AgeRow(df_age, g) : g \in all_groups}]))

GetFunnelByAge(st, d) == Once(EnsureFunnel(st, d), GetFunnelByAgeOn)

-----------------------------------------------------------------------------
(* Bounds of the model *)

(* complete merges counted per loaded snapshot *)
MaxBuilds == 2

(* times the files of the data folder are replaced *)
MaxEdits == 1

(* rows per file in the generated data folders *)
MaxDownloads == 3

MaxSignups == 2

MaxRequests == 2

MaxTransactions == 1

MaxReviews == 1

MaxTimingRows == 2

-----------------------------------------------------------------------------
(* The public methods as steps of the handler *)

Becomes(o) ==
    /\ df_downloads' = o.st.dl
    /\ df_signups' = o.st.su
    /\ df_requests' = o.st.rq
    /\ df_transactions' = o.st.tx
    /\ df_reviews' = o.st.rv
    /\ df_funnel' = o.st.fn
    /\ builds' = o.st.builds
    /\ ret' = o.ret
    /\ UNCHANGED <<disk, edits>>

load_data ==
    \E l \in {LoadData(Handler, disk)} :
        Becomes(Outcome(l.st, Result("load_data", "ok", "", [failed |-> l.failed])))

merge_all_data ==
    /\ builds < MaxBuilds
    /\ \E m \in {MergeAllData(Handler, disk)} :
        Becomes(Outcome(m.st, Result("merge_all_data", m.status, m.err,
                                     [shape |-> Len(m.st.fn.rows)])))

analyze_ride_duration_quality ==
    \E o \in {AnalyzeRideDurationQuality(Handler, disk)} : Becomes(o)

calculate_funnel_steps ==
    \E o \in {CalculateFunnelSteps(Handler, disk)} : Becomes(o)

analyze_dropoff_gap ==
    \E o \in {AnalyzeDropoffGap(Handler, disk)} : Becomes(o)

analyze_cancellation_reasons ==
    \E o \in {AnalyzeCancellationReasons(Handler, disk)} : Becomes(o)

get_platform_metrics ==
    \E o \in {GetPlatformMetrics(Handler, disk)} : Becomes(o)

get_funnel_by_age ==
    \E o \in {GetFunnelByAge(Handler, disk)} : Becomes(o)

analyze_surge_demand ==
    \E o \in {AnalyzeSurgeDemand(Handler, disk)} : Becomes(o)

-----------------------------------------------------------------------------
(* The data folder: what the five CSV files hold. A file that is not there *)
(* is None.                                                                *)

Download(key, platform) == [app_download_key |-> key, platform |-> platform]

Signup(session, user, age) ==
    [session_id |-> session, user_id |-> user, age_range |-> age]

Request(ride, user, driver, req, acc, pick, drop, canc) ==
    [ride_id |-> ride, user_id |-> user, driver_id |-> driver, request_ts |-> req,
     accept_ts |-> acc, pickup_ts |-> pick, dropoff_ts |-> drop, cancel_ts |-> canc]

Transaction(ride, status) == [ride_id |-> ride, charge_status |-> status]

Review(ride, user, review, driver) ==
    [ride_id |-> ride, user_id |-> user, review_id |-> review, driver_id |-> driver]

DownloadCols == {"app_download_key", "platform"}

SignupCols == {"session_id", "user_id", "age_range"}

RequestCols == {"ride_id", "user_id", "driver_id", "request_ts", "accept_ts",
                "pickup_ts", "dropoff_ts", "cancel_ts"}

TransactionCols == {"ride_id", "charge_status"}

ReviewCols == {"ride_id", "user_id", "review_id", "driver_id"}

Folder(dl, su, rq, tx, rv) ==
    [downloads |-> dl, signups |-> su, requests |-> rq, transactions |-> tx,
     reviews |-> rv]

(* A table without one of its columns *)
Without(T, col) ==
    [T EXCEPT !.cols = @ \ {col},
              !.rows = [i \in DOMAIN T.rows |->
                          [c \in T.cols \ {col} |-> T.rows[i][c]]]]

RECURSIVE PickFrom(_, _, _)
PickFrom(pool, S, i) ==
    IF i > Len(pool) THEN <<>>
    ELSE (IF i \in S THEN <<pool[i]>> ELSE <<>>) \o PickFrom(pool, S, i + 1)

(* Every file of at most k rows taken, in order, from the pool *)
Files(cols, pool, k) ==
    {DataFrame(cols, PickFrom(pool, S, 1)) :
        S \in {X \in SUBSET DOMAIN pool : Cardinality(X) <= k}}

(* Every file holding the first n <= k rows of the pool *)
FirstRows(cols, pool, k) ==
    {DataFrame(cols, SubSeq(pool, 1, n)) :
        n \in {m \in 0..Len(pool) : m <= k}}

(* Rides: U1's accepted-then-cancelled ride, U1's completed ride, a        *)
(* completed ride whose user_id is empty, U2's completed ride.             *)
RideCancelled ==
    Request(Str("R1"), Str("U1"), Str("DR1"), Text(100), Text(200), Null, Null, Text(900))

RideCompleted ==
    Request(Str("R2"), Str("U1"), Str("DR2"), Text(4000), Text(4100), Text(4300),
            Text(5000), Null)

RideNoUser ==
    Request(Str("R3"), Null, Str("DR1"), Text(7300), Text(7400), Text(7500),
            Text(7900), Null)

RideOther ==
    Request(Str("R4"), Str("U2"), Null, Text(90100), Null, Null, Null, Null)

DownloadPool ==
    << Download(Str("D1"), Str("ios")), Download(Str("D2"), Str("ios")),
       Download(Str("D3"), Str("android")), Download(Null, Str("web")) >>

SignupPool ==
    << Signup(Str("D1"), Str("U1"), Str("18-24")), Signup(Str("D2"), Str("U2"), Null),
       Signup(Str("D9"), Str("U3"), Str("25-34")) >>

RequestPool == << RideCancelled, RideCompleted, RideNoUser, RideOther >>

TransactionPool ==
    << Transaction(Str("R2"), Str("Approved")), Transaction(Str("R1"), Str("approved")) >>

ReviewPool ==
    << Review(Str("R2"), Str("U9"), Str("V1"), Str("DR9")),
       Review(Str("R1"), Str("U1"), Str("V2"), Str("DR1")) >>

(* Reviews files with the driver_id column, and one without it (the      *)
(* Review entity of the design has ride_id, user_id and review_id only).   *)
ReviewFiles ==
    Files(ReviewCols, ReviewPool, MaxReviews)
      \cup {Without(DataFrame(ReviewCols, <<ReviewPool[1]>>), "driver_id")}

MergeFolders ==
    {Folder(dl, su, rq, tx, rv) :
        dl \in FirstRows(DownloadCols, DownloadPool, MaxDownloads),
        su \in Files(SignupCols, SignupPool, MaxSignups),
        rq \in Files(RequestCols, RequestPool, MaxRequests),
        tx \in Files(TransactionCols, TransactionPool, MaxTransactions),
        rv \in ReviewFiles}

(* The example of the design: three downloads, one signup, one ride        *)
(* accepted and then cancelled.                                            *)
ExampleFolder ==
    Folder(DataFrame(DownloadCols, SubSeq(DownloadPool, 1, 3)),
           DataFrame(SignupCols, <<SignupPool[1]>>),
           DataFrame(RequestCols, <<RideCancelled>>),
           DataFrame(TransactionCols, <<>>),
           DataFrame(ReviewCols, <<>>))

(* Rides for the timing analyses: a duration of exactly 300 minutes, one   *)
(* second more, a drop-off before the pick-up, a duration of zero, no      *)
(* pick-up, and two rides cancelled after exactly 10 minutes and after one *)
(* second more.                                                            *)
TimingPool ==
    << Request(Str("R1"), Str("U1"), Str("DR1"), Text(0), Text(60), Text(600), Text(18600), Null),
       Request(Str("R2"), Str("U1"), Str("DR1"), Text(0), Text(60), Text(600), Text(18601), Null),
       Request(Str("R3"), Str("U2"), Str("DR2"), Text(3600), Text(3700), Text(18600), Text(600), Null),
       Request(Str("R4"), Str("U2"), Str("DR2"), Text(3600), Text(3700), Text(4000), Text(4000), Null),
       Request(Str("R5"), Str("U3"), Str("DR1"), Text(90000), Text(90100), Null, Text(90500), Null),
       Request(Str("R6"), Str("U3"), Str("DR2"), Text(90000), Text(90100), Null, Null, Text(90700)),
       Request(Str("R7"), Str("U1"), Str("DR2"), Text(7200), Text(7300), Null, Null, Text(7901)) >>

TimingFolders ==
    {[ExampleFolder EXCEPT !.requests = rq] :
        rq \in Files(RequestCols, TimingPool, MaxTimingRows)}

(* Folders for the handler's life cycle: sound ones, and ones with a file  *)
(* missing, a join key missing, or a timestamp that cannot be parsed.      *)
BusyFolder ==
    Folder(DataFrame(DownloadCols, <<DownloadPool[1], DownloadPool[2]>>),
           DataFrame(SignupCols, <<SignupPool[1], SignupPool[2]>>),
           DataFrame(RequestCols, <<RideCompleted, TimingPool[7]>>),
           DataFrame(TransactionCols, <<TransactionPool[1]>>),
           DataFrame(ReviewCols, <<ReviewPool[1]>>))

NullKeyFolder ==
    Folder(DataFrame(DownloadCols, <<Download(Null, Str("web")), DownloadPool[1]>>),
           DataFrame(SignupCols, <<SignupPool[1]>>),
           DataFrame(RequestCols, <<RideNoUser>>),
           DataFrame(TransactionCols, <<>>),
           DataFrame(ReviewCols, <<>>))

NoUserIdFolder ==
    [ExampleFolder EXCEPT !.requests = Without(@, "user_id")]

NoReviewKeyFolder ==
    [BusyFolder EXCEPT !.reviews = Without(@, "ride_id")]

BadTimestampFolder ==
    [ExampleFolder EXCEPT !.requests =
        DataFrame(RequestCols, <<[RideCompleted EXCEPT !["pickup_ts"] = Garbage]>>)]

MissingFileFolder == [BusyFolder EXCEPT !.signups = None]

LifecycleFolders ==
    {ExampleFolder, BusyFolder, NullKeyFolder, NoUserIdFolder, NoReviewKeyFolder,
     BadTimestampFolder, MissingFileFolder}

(* The files of the data folder are replaced (by whoever maintains them).  *)
ChangeFiles ==
    /\ edits < MaxEdits
    /\ disk' \in LifecycleFolders \ {disk}
    /\ edits' = edits + 1
    /\ UNCHANGED <<df_downloads, df_signups, df_requests, df_transactions,
                   df_reviews, df_funnel, ret, builds>>

-----------------------------------------------------------------------------
(* After __init__ (lines 10-17): nothing loaded, nothing cached. *)

Constructed ==
    /\ df_downloads = None
    /\ df_signups = None
    /\ df_requests = None
    /\ df_transactions = None
    /\ df_reviews = None
    /\ df_funnel = None
    /\ ret = Result("__init__", "ok", "", NoValue)
    /\ builds = 0
    /\ edits = 0

Init == disk \in LifecycleFolders /\ Constructed

Next ==
    \/ ChangeFiles
    \/ load_data
    \/ merge_all_data
    \/ analyze_ride_duration_quality
    \/ calculate_funnel_steps
    \/ analyze_dropoff_gap
    \/ analyze_cancellation_reasons
    \/ get_platform_metrics
    \/ get_funnel_by_age
    \/ analyze_surge_demand

Spec == Init /\ [][Next]_vars

(* The merge and its consumers over every generated data folder *)
InitMerge == disk \in MergeFolders /\ Constructed

NextMerge ==
    \/ merge_all_data
    \/ calculate_funnel_steps
    \/ get_platform_metrics
    \/ get_funnel_by_age

SpecMerge == InitMerge /\ [][NextMerge]_vars

(* The timing and demand analyses over every generated Requests file *)
InitTiming == disk \in TimingFolders /\ Constructed

NextTiming ==
    \/ analyze_ride_duration_quality
    \/ analyze_dropoff_gap
    \/ analyze_cancellation_reasons
    \/ analyze_surge_demand

SpecTiming == InitTiming /\ [][NextTiming]_vars

-----------------------------------------------------------------------------
(* Vocabulary of the properties *)

Consumers == {"calculate_funnel_steps", "get_platform_metrics", "get_funnel_by_age"}

TimingOps == {"analyze_ride_duration_quality", "analyze_dropoff_gap",
              "analyze_cancellation_reasons", "analyze_surge_demand"}

LoadedAll ==
    /\ ~df_downloads.isNone
    /\ ~df_signups.isNone
    /\ ~df_requests.isNone
    /\ ~df_transactions.isNone
    /\ ~df_reviews.isNone

(* load_data converted every time column of Requests *)
Converted == Range(TimeColumns) \subseteq df_requests.dtcols

(* merge_all_data has just returned the complete table *)
Merged == ret.op = "merge_all_data" /\ ret.status = "ok"

RowsOf(T) == {T.rows[i] : i \in DOMAIN T.rows}

(* The download of a funnel row has no signup / its user has no ride *)
NoSignup(r) == \A su \in RowsOf(df_signups) : su["session_id"] # r["app_download_key"]

NoRide(r) ==
    /\ notna(r["user_id"])
    /\ \A rq \in RowsOf(df_requests) : rq["user_id"] # r["user_id"]

-----------------------------------------------------------------------------
(* C1: merge_all_data keeps every Download row: none of the four left      *)
(* joins makes the table shorter, every Download row is in the funnel      *)
(* table, and a download with no signup (a signup with no ride) has null   *)
(* in every downstream field.                                              *)
C1_LeftJoinComplete ==
    Merged =>
        LET j1 == PdMerge(df_downloads, df_signups, "app_download_key", "session_id").df
            j2 == PdMerge(j1, df_requests, "user_id", "user_id").df
            j3 == PdMerge(j2, df_transactions, "ride_id", "ride_id").df
            j4 == PdMerge(j3, df_reviews, "ride_id", "ride_id").df
        IN  /\ Len(df_downloads.rows) <= Len(j1.rows)
            /\ Len(j1.rows) <= Len(j2.rows)
            /\ Len(j2.rows) <= Len(j3.rows)
            /\ Len(j3.rows) <= Len(j4.rows)
            /\ Len(j4.rows) = Len(df_funnel.rows)
            /\ \A dl \in RowsOf(df_downloads) : \E r \in RowsOf(df_funnel) :
                  \A c \in DownloadCols : r[c] = dl[c]
            /\ \A r \in RowsOf(df_funnel) :
                  /\ NoSignup(r) => \A c \in df_funnel.cols \ DownloadCols : isna(r[c])
                  /\ NoRide(r) =>
                        \A c \in df_funnel.cols \ (DownloadCols \cup SignupCols) : isna(r[c])

(* The part of C1 that the code keeps: the row counts never fall and every *)
(* Download row is in the funnel table.                                    *)
C1_RowsKept ==
    Merged =>
        /\ Len(df_downloads.rows) <= Len(df_funnel.rows)
        /\ \A dl \in RowsOf(df_downloads) : \E r \in RowsOf(df_funnel) :
              \A c \in DownloadCols : r[c] = dl[c]

-----------------------------------------------------------------------------
(* C2: on one unchanged snapshot of the tables the funnel table is built   *)
(* at most once.                                                           *)
C2_BuiltAtMostOnce == builds <= 1

(* C2, as amended: a consumer that finds the cache present leaves it and   *)
(* merges nothing; a direct merge_all_data call that succeeds merges again *)
(* every time, and on unchanged tables it rebuilds the same table.         *)
C2_ConsumersReuseCache ==
    [][/\ (ret'.op \in Consumers /\ ~df_funnel.isNone)
            => (df_funnel' = df_funnel /\ builds' = builds)
       /\ (ret'.op = "merge_all_data" /\ ret'.status = "ok" /\ edits' = edits)
            => /\ builds' = (IF df_downloads.isNone THEN 0 ELSE builds) + 1
               /\ (builds >= 1 /\ tables' = tables) => df_funnel' = df_funnel]_vars

(* A consumer has run on a cache that two complete merges had built. *)
C2_Witness == ret.op \in Consumers /\ ret.status = "ok" /\ builds = 2

-----------------------------------------------------------------------------
(* C3: whenever a consumer has read the cache, the cached table is the     *)
(* merge of the five tables held now (stated for tables that load_data     *)
(* loaded and converted completely, and whose merge exists).               *)
C3_CacheIsCurrentMerge ==
    (ret.op \in Consumers /\ ret.status = "ok" /\ LoadedAll /\ Converted) =>
        LET m == MergeAllData([Handler EXCEPT !.fn = None], disk)
        IN  m.status = "ok" => df_funnel = m.st.fn

-----------------------------------------------------------------------------
(* The counts of the design, stated on the funnel table directly: the      *)
(* users (non-null user_id) having at least one row that meets the stage.  *)
UsersWith(P(_)) ==
    {u \in {r["user_id"] : r \in RowsOf(df_funnel)} :
        notna(u) /\ \E r \in RowsOf(df_funnel) : r["user_id"] = u /\ P(r)}

StageCounts ==
    << Cardinality({k \in {r["app_download_key"] : r \in RowsOf(df_funnel)} : notna(k)}),
       Cardinality(UsersWith(LAMBDA r : TRUE)),
       Cardinality(UsersWith(LAMBDA r : r["request_ts"].tag # "null")),
       Cardinality(UsersWith(LAMBDA r : r["accept_ts"].tag # "null")),
       Cardinality(UsersWith(LAMBDA r : r["dropoff_ts"].tag # "null")),
       Cardinality(UsersWith(LAMBDA r : r["charge_status"].tag = "str"
                                        /\ r["charge_status"].s = "Approved")),
       Cardinality(UsersWith(LAMBDA r : r["review_id"].tag # "null")) >>

FunnelSteps == ret.op = "calculate_funnel_steps" /\ ret.status = "ok"

-----------------------------------------------------------------------------
(* C5: after merge_all_data the table has one user_id and one driver_id    *)
(* column, holding the left-hand values, and no user_id_y or driver_id_y.  *)
LeftHandValues ==
    /\ {"user_id", "driver_id"} \subseteq df_funnel.cols
    /\ {"user_id_x", "driver_id_x"} \cap df_funnel.cols = {}
    /\ \A r \in RowsOf(df_funnel) :
          /\ IF NoSignup(r) THEN isna(r["user_id"])
             ELSE \E su \in RowsOf(df_signups) :
                     /\ su["session_id"] = r["app_download_key"]
                     /\ su["user_id"] = r["user_id"]
          /\ notna(r["ride_id"]) =>
                \E rq \in RowsOf(df_requests) :
                     /\ rq["ride_id"] = r["ride_id"]
                     /\ rq["driver_id"] = r["driver_id"]

C5_RightVariantsDropped ==
    Merged =>
        /\ LeftHandValues
        /\ {"user_id_y", "driver_id_y"} \cap df_funnel.cols = {}

(* C5, as amended: one user_id and one driver_id column hold the left-hand *)
(* values; each of the two that Reviews carries as well stays in the table *)
(* with the Reviews value, as user_id_y or driver_id_y; the names are      *)
(* resolved once, after the fourth join.                                   *)
C5_LeftValuesKept ==
    Merged =>
        /\ LeftHandValues
        /\ \A c \in {"user_id", "driver_id"} :
              /\ (c \o "_y") \in df_funnel.cols <=> c \in df_reviews.cols
              /\ c \in df_reviews.cols =>
                    \A r \in RowsOf(df_funnel) :
                        IF isna(r["review_id"]) THEN isna(r[c \o "_y"])
                        ELSE \E rv \in RowsOf(df_reviews) :
                                /\ rv["review_id"] = r["review_id"]
                                /\ rv[c] = r[c \o "_y"]

(* A merged row whose review names another user and driver than its ride *)
C5_Witness ==
    /\ Merged
    /\ {"user_id_y", "driver_id_y"} \subseteq df_funnel.cols
    /\ \E r \in RowsOf(df_funnel) :
          /\ r["user_id"] = Str("U1") /\ r["user_id_y"] = Str("U9")
          /\ r["driver_id"] = Str("DR2") /\ r["driver_id_y"] = Str("DR9")

-----------------------------------------------------------------------------
(* C6: no rate computation with a zero denominator ends in a division      *)
(* error or an undefined value.                                            *)
C6_ZeroDenominatorSafe ==
    /\ ret.status # "ZeroDivisionError"
    /\ (ret.op = "analyze_dropoff_gap" /\ ret.status = "ok" /\ ret.val.count_problems = 0)
          => ret.val.printed = "Keine Faelle gefunden"
    /\ (ret.op = "get_platform_metrics" /\ ret.status = "ok")
          => \A g \in ret.val.platform_stats : g.Conversion_Rate.kind = "finite"

(* The platform part of C6 alone: a group without a download key has a     *)
(* finite conversion rate.                                                 *)
C6_PlatformRateDefined ==
    (ret.op = "get_platform_metrics" /\ ret.status = "ok")
        => \A g \in ret.val.platform_stats : g.Conversion_Rate.kind = "finite"

-----------------------------------------------------------------------------
(* Distinct users of the whole funnel table *)
DistinctUsers == Cardinality({r["user_id"] : r \in RowsOf(df_funnel)} \ {Null})

(* C7: each of the seven counts is at most the number of distinct users of *)
(* the funnel table, and the Downloads count is at most |Download|.        *)
C7_AllWithinUsers ==
    FunnelSteps =>
        /\ \A k \in 1..7 : ret.val.counts[k] >= 0 /\ ret.val.counts[k] <= DistinctUsers
        /\ ret.val.counts[1] <= Len(df_downloads.rows)

(* C7, as amended: the counts of stages 2 to 7 are at most the number of   *)
(* distinct users; the Downloads count is at most |Download|.              *)
C7_UserStagesWithinUsers ==
    FunnelSteps =>
        /\ \A k \in 1..7 : ret.val.counts[k] >= 0
        /\ \A k \in 2..7 : ret.val.counts[k] <= DistinctUsers
        /\ ret.val.counts[1] <= Len(df_downloads.rows)

(* More rows than downloads, more downloads than users *)
C7_Witness ==
    /\ FunnelSteps
    /\ Len(df_funnel.rows) > Len(df_downloads.rows)
    /\ ret.val.counts[1] > DistinctUsers
    /\ ret.val.counts[2] = DistinctUsers
    /\ ret.val.counts[5] = 1

-----------------------------------------------------------------------------
DurationQuality == ret.op = "analyze_ride_duration_quality"

(* The rides of Requests with both a pick-up and a drop-off *)
TimedRides ==
    {i \in DOMAIN df_requests.rows :
        /\ df_requests.rows[i]["dropoff_ts"].tag = "dt"
        /\ df_requests.rows[i]["pickup_ts"].tag = "dt"}

RideSeconds(i) ==
    df_requests.rows[i]["dropoff_ts"].n - df_requests.rows[i]["pickup_ts"].n

(* C8: analyze_ride_duration_quality does not fail; long_ride_count is the *)
(* number of rides longer than 300 minutes, negative_ride_count the number *)
(* of rides shorter than 0 minutes, a ride of exactly 300 or 0 minutes is  *)
(* in neither, a ride without drop-off is in no count, and the statistics  *)
(* count every ride that has a duration.                                   *)
C8_DurationCounts ==
    DurationQuality =>
        /\ ret.status = "ok"
        /\ ret.val.long_rides = Cardinality({i \in TimedRides : RideSeconds(i) > 300 * 60})
        /\ ret.val.negative_rides = Cardinality({i \in TimedRides : RideSeconds(i) < 0})
        /\ ret.val.stats_count = Cardinality(TimedRides)

(* A ride of exactly 300 minutes beside a negative one: neither long, one  *)
(* negative, both in the statistics                                        *)
C8_Witness ==
    /\ DurationQuality
    /\ \E i \in TimedRides : RideSeconds(i) = 300 * 60
    /\ \E i \in TimedRides : RideSeconds(i) < 0
    /\ ret.val.long_rides = 0
    /\ ret.val.negative_rides = 1
    /\ ret.val.stats_count = 2

-----------------------------------------------------------------------------
(* C9: a timing or demand analysis leaves the cached funnel table as it    *)
(* was and, the five tables being loaded, every table as it was.           *)
C9_TimingChangesNothing ==
    [][ret'.op \in TimingOps =>
          /\ df_funnel' = df_funnel
          /\ LoadedAll => tables' = tables]_vars

(* C9, as amended: the same, except that analyze_surge_demand replaces     *)
(* request_ts by its parsed date-times when the column is not date-time    *)
(* yet (load_data having stopped before converting it).                    *)
C9_TimingFrame ==
    [][ret'.op \in TimingOps =>
          /\ df_funnel' = df_funnel
          /\ LoadedAll =>
                /\ <<df_downloads, df_signups, df_transactions, df_reviews>>'
                      = <<df_downloads, df_signups, df_transactions, df_reviews>>
                /\ \/ df_requests' = df_requests
                   \/ /\ ret'.op = "analyze_surge_demand"
                      /\ "request_ts" \notin df_requests.dtcols
                      /\ df_requests'.cols = df_requests.cols
                      /\ df_requests'.dtcols = df_requests.dtcols \cup {"request_ts"}
                      /\ Len(df_requests'.rows) = Len(df_requests.rows)
                      /\ \A i \in DOMAIN df_requests.rows :
                            /\ \A c \in df_requests.cols \ {"request_ts"} :
                                  df_requests'.rows[i][c] = df_requests.rows[i][c]
                            /\ df_requests'.rows[i]["request_ts"].n
                                  = df_requests.rows[i]["request_ts"].n
                            /\ df_requests'.rows[i]["request_ts"].tag \in {"dt", "null"}]_vars

(* analyze_surge_demand has run on loaded, converted tables with the cache *)
(* present                                                                 *)
C9_Witness ==
    /\ ret.op = "analyze_surge_demand"
    /\ ret.status = "ok"
    /\ LoadedAll
    /\ Converted
    /\ ~df_funnel.isNone
    /\ edits = 1

-----------------------------------------------------------------------------
(* C10: a merge that fails on a missing join key leaves the cached funnel  *)
(* table as it was before the call.                                        *)
C10_FailedMergeLeavesCache ==
    [][(ret'.op \in Consumers \cup {"merge_all_data"} /\ ret'.status = "KeyError"
           /\ edits' = edits)
          => df_funnel' = df_funnel]_vars

====
